---- MODULE Spec2Model ----
(***************************************************************************)
(* The budget allocator of the Ateema proposal builder:                    *)
(* ateema/upgrader.py (greedy_fill_to_cap, in its CloudVersion and         *)
(* CloudVersion_Final variants) together with the pricing helpers it       *)
(* calls.                                                                  *)
(*                                                                         *)
(* Spell gives the characters of each string, so that lower(), strip(),    *)
(* the substring tests and the regular expression of qty_from_tier are     *)
(* computed on the characters as the code computes them.  Money is an      *)
(* integer number of mills (1/1000 of a currency unit), so that            *)
(* round(x, 2) is a real rounding step.                                    *)
(***************************************************************************)
EXTENDS Integers, Sequences, FiniteSets, TLC

(***************************************************************************)
(* The two variants                                                        *)
(***************************************************************************)
\* CloudVersion_Final/app/ateema/upgrader.py
Final ==
    "Final"

\* CloudVersion/app/ateema/upgrader.py
Plain ==
    "Plain"

(***************************************************************************)
(* Money                                                                   *)
(***************************************************************************)
\* round(x, 2) keeps two decimals: one cent is ten mills.
MillsPerCent ==
    10

Cents(n) ==
    n * MillsPerCent

Dollars(n) ==
    Cents(n * 100)

\* round(subtotal, 2): to the nearest cent, an exact tie going to the even cent.
Round2(x) ==
    LET r == x % MillsPerCent
        f == x - r
    IN  IF 2 * r < MillsPerCent THEN f
        ELSE IF 2 * r > MillsPerCent THEN f + MillsPerCent
        ELSE IF (f \div MillsPerCent) % 2 = 0 THEN f ELSE f + MillsPerCent

(***************************************************************************)
(* Strings                                                                 *)
(***************************************************************************)
\* The characters of every string the model uses.
Spell ==
    ("with any campaign" :>
        <<"w","i","t","h"," ","a","n","y"," ","c","a","m","p","a","i","g","n">>) @@
    ("Contract with multiple products" :>
        <<"C","o","n","t","r","a","c","t"," ","w","i","t","h"," ","m","u","l","t","i","p","l","e"," ","p","r","o","d","u","c","t","s">>) @@
    ("Contract with multiple productswith campaign" :>
        <<"C","o","n","t","r","a","c","t"," ","w","i","t","h"," ","m","u","l","t","i","p","l","e"," ","p","r","o","d","u","c","t","s","w","i","t","h"," ","c","a","m","p","a","i","g","n">>) @@
    ("with campaign" :>
        <<"w","i","t","h"," ","c","a","m","p","a","i","g","n">>) @@
    ("existing advertiser" :>
        <<"e","x","i","s","t","i","n","g"," ","a","d","v","e","r","t","i","s","e","r">>) @@
    ("advertiser rate" :>
        <<"a","d","v","e","r","t","i","s","e","r"," ","r","a","t","e">>) @@
    ("bundle" :> <<"b","u","n","d","l","e">>) @@
    ("add-on" :> <<"a","d","d","-","o","n">>) @@
    ("package price" :>
        <<"p","a","c","k","a","g","e"," ","p","r","i","c","e">>) @@
    ("advertiser" :> <<"a","d","v","e","r","t","i","s","e","r">>) @@
    ("non-advertiser" :>
        <<"n","o","n","-","a","d","v","e","r","t","i","s","e","r">>) @@
    ("non advertiser" :>
        <<"n","o","n"," ","a","d","v","e","r","t","i","s","e","r">>) @@
    ("summit" :> <<"s","u","m","m","i","t">>) @@
    ("booth" :> <<"b","o","o","t","h">>) @@
    ("Chicago Does Interactive Map" :>
        <<"C","h","i","c","a","g","o"," ","D","o","e","s"," ","I","n","t","e","r","a","c","t","i","v","e"," ","M","a","p">>) @@
    ("Banner Ad" :> <<"B","a","n","n","e","r"," ","A","d">>) @@
    ("Summit Booth" :> <<"S","u","m","m","i","t"," ","B","o","o","t","h">>) @@
    ("Magazine Ad" :> <<"M","a","g","a","z","i","n","e"," ","A","d">>) @@
    ("Newsletter" :> <<"N","e","w","s","l","e","t","t","e","r">>) @@
    ("Web Listing" :> <<"W","e","b"," ","L","i","s","t","i","n","g">>) @@
    ("Directory" :> <<"D","i","r","e","c","t","o","r","y">>) @@
    ("1x" :> <<"1","x">>) @@
    ("4x" :> <<"4","x">>) @@
    ("2 X" :> <<"2"," ","X">>) @@
    ("Standard" :> <<"S","t","a","n","d","a","r","d">>) @@
    ("Premium" :> <<"P","r","e","m","i","u","m">>) @@
    ("Existing Advertiser Rate" :>
        <<"E","x","i","s","t","i","n","g"," ","A","d","v","e","r","t","i","s","e","r"," ","R","a","t","e">>) @@
    ("Non-Advertiser Rate" :>
        <<"N","o","n","-","A","d","v","e","r","t","i","s","e","r"," ","R","a","t","e">>) @@
    ("Bundle Price" :> <<"B","u","n","d","l","e"," ","P","r","i","c","e">>) @@
    ("Open Rate" :> <<"O","p","e","n"," ","R","a","t","e">>) @@
    ("Advertiser Booth" :>
        <<"A","d","v","e","r","t","i","s","e","r"," ","B","o","o","t","h">>) @@
    ("Non-Advertiser Booth" :>
        <<"N","o","n","-","A","d","v","e","r","t","i","s","e","r"," ","B","o","o","t","h">>) @@
    ("Corner Booth" :> <<"C","o","r","n","e","r"," ","B","o","o","t","h">>) @@
    ("Per Quarter" :> <<"P","e","r"," ","Q","u","a","r","t","e","r">>) @@
    ("Full Page" :> <<"F","u","l","l"," ","P","a","g","e">>) @@
    ("Booth Signage" :>
        <<"B","o","o","t","h"," ","S","i","g","n","a","g","e">>) @@
    ("Sponsored Post" :>
        <<"S","p","o","n","s","o","r","e","d"," ","P","o","s","t">>) @@
    ("Non Advertiser Price" :>
        <<"N","o","n"," ","A","d","v","e","r","t","i","s","e","r"," ","P","r","i","c","e">>) @@
    ("Non-Advertiser Price" :>
        <<"N","o","n","-","A","d","v","e","r","t","i","s","e","r"," ","P","r","i","c","e">>) @@
    ("Non Advertiser Rate" :>
        <<"N","o","n"," ","A","d","v","e","r","t","i","s","e","r"," ","R","a","t","e">>) @@
    ("ADVERTISER SPECIAL" :>
        <<"A","D","V","E","R","T","I","S","E","R"," ","S","P","E","C","I","A","L">>) @@
    ("Existing Advertiser" :>
        <<"E","x","i","s","t","i","n","g"," ","A","d","v","e","r","t","i","s","e","r">>) @@
    ("Rate With Any Campaign" :>
        <<"R","a","t","e"," ","W","i","t","h"," ","A","n","y"," ","C","a","m","p","a","i","g","n">>) @@
    ("Contract With Multiple Products" :>
        <<"C","o","n","t","r","a","c","t"," ","W","i","t","h"," ","M","u","l","t","i","p","l","e"," ","P","r","o","d","u","c","t","s">>) @@
    ("Rate with Campaign" :>
        <<"R","a","t","e"," ","w","i","t","h"," ","C","a","m","p","a","i","g","n">>) @@
    ("Add-On Listing" :>
        <<"A","d","d","-","O","n"," ","L","i","s","t","i","n","g">>) @@
    ("Package Price" :>
        <<"P","a","c","k","a","g","e"," ","P","r","i","c","e">>) @@
    ("Non-Advertiser Bundle" :>
        <<"N","o","n","-","A","d","v","e","r","t","i","s","e","r"," ","B","u","n","d","l","e">>) @@
    ("contract with multiple products" :>
        <<"c","o","n","t","r","a","c","t"," ","w","i","t","h"," ","m","u","l","t","i","p","l","e"," ","p","r","o","d","u","c","t","s">>) @@
    ("package" :>
        <<"p","a","c","k","a","g","e">>) @@
    ("campaign" :>
        <<"c","a","m","p","a","i","g","n">>)

LowerOf ==
    ("A" :> "a") @@ ("B" :> "b") @@ ("C" :> "c") @@ ("D" :> "d") @@ ("E" :> "e") @@
    ("F" :> "f") @@ ("G" :> "g") @@ ("H" :> "h") @@ ("I" :> "i") @@ ("J" :> "j") @@
    ("K" :> "k") @@ ("L" :> "l") @@ ("M" :> "m") @@ ("N" :> "n") @@ ("O" :> "o") @@
    ("P" :> "p") @@ ("Q" :> "q") @@ ("R" :> "r") @@ ("S" :> "s") @@ ("T" :> "t") @@
    ("U" :> "u") @@ ("V" :> "v") @@ ("W" :> "w") @@ ("X" :> "x") @@ ("Y" :> "y") @@
    ("Z" :> "z")

\* str.lower(), as characters
Lower(str) ==
    LET s == Spell[str]
    IN  [i \in 1..Len(s) |-> IF s[i] \in DOMAIN LowerOf THEN LowerOf[s[i]] ELSE s[i]]

\* sub in s, for the characters s and the string sub
Contains(s, sub) ==
    LET c == Spell[sub]
    IN  \E i \in 1..(Len(s) - Len(c) + 1) :
            \A j \in 1..Len(c) : s[i + j - 1] = c[j]

Whitespace ==
    {" ", "\t"}

DigitValue ==
    ("0" :> 0) @@ ("1" :> 1) @@ ("2" :> 2) @@ ("3" :> 3) @@ ("4" :> 4) @@
    ("5" :> 5) @@ ("6" :> 6) @@ ("7" :> 7) @@ ("8" :> 8) @@ ("9" :> 9)

\* str.strip()
Strip(s) ==
    LET keep == {i \in 1..Len(s) : s[i] \notin Whitespace}
    IN  IF keep = {} THEN <<>>
        ELSE SubSeq(s, CHOOSE i \in keep : \A j \in keep : i <= j,
                       CHOOSE i \in keep : \A j \in keep : i >= j)

\* int() of a string of digits
RECURSIVE ToInt(_)
ToInt(ds) ==
    IF ds = <<>> THEN 0
    ELSE 10 * ToInt(SubSeq(ds, 1, Len(ds) - 1)) + DigitValue[ds[Len(ds)]]

\* Mutant of qty_from_tier: every tier counts once.
qty_from_tier_one(tier) ==
    1

\* qty_from_tier: re.fullmatch(r"(\d+)\s*[xX]", tier.strip()), else 1
qty_from_tier(tier) ==
    IF tier = "" THEN 1
    ELSE LET s == Strip(Spell[tier])
             n == Len(s)
             m == {d \in 1..(n - 1) :
                      /\ \A j \in 1..d : s[j] \in DOMAIN DigitValue
                      /\ \A j \in (d + 1)..(n - 1) : s[j] \in Whitespace}
         IN  IF n >= 2 /\ s[n] \in {"x", "X"} /\ m # {}
             THEN ToInt(SubSeq(s, 1, CHOOSE d \in m : TRUE))
             ELSE 1

(***************************************************************************)
(* _is_restricted_tier                                                     *)
(***************************************************************************)
KwWithAnyCampaign ==
    "with any campaign"

KwContractMultiple ==
    "Contract with multiple products"

KwContractMultipleWithCampaign ==
    "Contract with multiple productswith campaign"

KwWithCampaign ==
    "with campaign"

KwExistingAdvertiser ==
    "existing advertiser"

KwAdvertiserRate ==
    "advertiser rate"

KwBundle ==
    "bundle"

KwAddOn ==
    "add-on"

KwPackagePrice ==
    "package price"

StrAdvertiser ==
    "advertiser"

StrNonAdvertiserHyphen ==
    "non-advertiser"

StrNonAdvertiserSpace ==
    "non advertiser"

\* The block-list as each variant writes it: CloudVersion lacks the comma
\* after "Contract with multiple products", so Python joins it with the
\* next literal.
restricted_keywords(v) ==
    IF v = Final
    THEN <<KwWithAnyCampaign, KwContractMultiple, KwWithCampaign,
           KwExistingAdvertiser, KwAdvertiserRate, KwBundle, KwAddOn,
           KwPackagePrice>>
    ELSE <<KwWithAnyCampaign, KwContractMultipleWithCampaign,
           KwExistingAdvertiser, KwAdvertiserRate, KwBundle, KwAddOn,
           KwPackagePrice>>

\* Mutant of is_restricted_tier: the advertiser flag is not looked at.
is_restricted_tier_no_flag(v, label, is_adv) ==
    LET lbl == Lower(label)
        kws == restricted_keywords(v)
    IN  \/ /\ Contains(lbl, StrAdvertiser)
           /\ ~Contains(lbl, StrNonAdvertiserHyphen)
           /\ ~Contains(lbl, StrNonAdvertiserSpace)
        \/ \E k \in 1..Len(kws) : Contains(lbl, kws[k])

\* Mutant of is_restricted_tier: the label is tested as written, without
\* lower().
is_restricted_tier_case(v, label, is_adv) ==
    IF is_adv THEN FALSE
    ELSE LET lbl == Spell[label]
             kws == restricted_keywords(v)
         IN  \/ /\ Contains(lbl, StrAdvertiser)
                /\ ~Contains(lbl, StrNonAdvertiserHyphen)
                /\ ~Contains(lbl, StrNonAdvertiserSpace)
             \/ \E k \in 1..Len(kws) : Contains(lbl, kws[k])

is_restricted_tier(v, label, is_adv) ==
    IF is_adv THEN FALSE
    ELSE LET lbl == Lower(label)
             kws == restricted_keywords(v)
         IN  \/ /\ Contains(lbl, StrAdvertiser)
                /\ ~Contains(lbl, StrNonAdvertiserHyphen)
                /\ ~Contains(lbl, StrNonAdvertiserSpace)
             \/ \E k \in 1..Len(kws) : Contains(lbl, kws[k])

(***************************************************************************)
(* Summit Booth option filter                                              *)
(***************************************************************************)
StrSummit ==
    "summit"

StrBooth ==
    "booth"

\* Mutant of summit_booth_skip: only the advertiser's branch of the filter.
summit_booth_skip_adv_only(pname, opt_name, is_adv) ==
    IF Contains(Lower(pname), StrSummit) /\ Contains(Lower(pname), StrBooth)
    THEN LET low == Lower(opt_name)
             has_non == \/ Contains(low, StrNonAdvertiserHyphen)
                        \/ Contains(low, StrNonAdvertiserSpace)
         IN  is_adv /\ has_non
    ELSE FALSE

\* The option-level filter both loops apply: TRUE when the option is skipped.
summit_booth_skip(pname, opt_name, is_adv) ==
    IF Contains(Lower(pname), StrSummit) /\ Contains(Lower(pname), StrBooth)
    THEN LET low == Lower(opt_name)
             has_non == \/ Contains(low, StrNonAdvertiserHyphen)
                        \/ Contains(low, StrNonAdvertiserSpace)
             has_adv == Contains(low, StrAdvertiser) /\ ~has_non
         IN  \/ is_adv /\ has_non
             \/ ~is_adv /\ has_adv
    ELSE FALSE

(***************************************************************************)
(* ateema.pricing                                                          *)
(***************************************************************************)
\* An optional value: None is <<>>, a present value x is <<x>>.
Some(x) ==
    <<x>>

\* meta.get(pname, {}) of a product without a metadata entry.
EmptyMeta ==
    [seasonal |-> <<>>, advertiser |-> <<>>]

\* price_points(opt): the (tier label, base price) pairs of an option, in order.
price_points(opt) ==
    opt.points

\* The seasonal price of the first window of this option that holds the
\* date replaces the base price; for an advertiser the advertiser price
\* configured for this option then replaces that.
get_effective_unit_price(pname, opt_name, base_price, pmeta, date, is_adv) ==
    LET win == {k \in 1..Len(pmeta.seasonal) :
                   /\ date # <<>>
                   /\ pmeta.seasonal[k].option = opt_name
                   /\ pmeta.seasonal[k].from <= date[1]
                   /\ date[1] <= pmeta.seasonal[k].to}
        seasonal == IF win = {} THEN base_price
                    ELSE pmeta.seasonal[CHOOSE k \in win : \A j \in win : k <= j].price
        adv == {k \in 1..Len(pmeta.advertiser) : pmeta.advertiser[k].option = opt_name}
    IN  IF is_adv /\ adv # {}
        THEN pmeta.advertiser[CHOOSE k \in adv : \A j \in adv : k <= j].price
        ELSE seasonal

\* effective_line_price: the unit price times the quantity of the tier label.
effective_line_price(product, lbl, eff_base) ==
    eff_base * qty_from_tier(lbl)

(***************************************************************************)
(* map_line_price                                                          *)
(***************************************************************************)
MapName ==
    "Chicago Does Interactive Map"

\* Mutant of map_line_price: a quarter count of zero or None is not replaced by 1.
map_line_price_no_default(pname, tier_label, eff_base, quarters) ==
    IF pname # MapName THEN <<>>
    ELSE LET q == IF quarters = <<>> THEN 0 ELSE quarters[1]
         IN  Some(eff_base * q)

map_line_price(pname, tier_label, eff_base, quarters) ==
    IF pname # MapName THEN <<>>
    ELSE LET q == IF quarters = <<>> \/ quarters[1] = 0 THEN 1 ELSE quarters[1]
         IN  Some(eff_base * q)

\* The line price as each variant computes it: CloudVersion_Final asks
\* map_line_price first, CloudVersion has only effective_line_price.
line_price(v, pname, product, lbl, eff_base, quarters) ==
    IF v = Final
    THEN LET map_price == map_line_price(pname, lbl, eff_base, quarters)
         IN  IF map_price # <<>> THEN map_price[1]
             ELSE effective_line_price(product, lbl, eff_base)
    ELSE effective_line_price(product, lbl, eff_base)

(***************************************************************************)
(* greedy_fill_to_cap: the scan of a product's price points                *)
(***************************************************************************)
RECURSIVE Concat(_)
Concat(ss) ==
    IF ss = <<>> THEN <<>> ELSE Head(ss) \o Concat(Tail(ss))

\* opt.get("name", pname)
option_name(opt, pname) ==
    IF "name" \in DOMAIN opt THEN opt.name ELSE pname

\* meta.get(pname, {})
meta_get(meta, pname) ==
    IF pname \in DOMAIN meta THEN meta[pname] ELSE EmptyMeta

\* Mutant of option_points: the tier filter is not applied.
option_points_unfiltered(v, product, opt, meta, date, is_adv, quarters) ==
    LET pname == product.name
        opt_name == option_name(opt, pname)
        pts == price_points(opt)
    IN  IF summit_booth_skip(pname, opt_name, is_adv) THEN <<>>
        ELSE [k \in 1..Len(pts) |->
                LET eff_base == get_effective_unit_price(
                                    pname, opt_name, pts[k][2],
                                    meta_get(meta, pname), date, is_adv)
                IN  [opt_name |-> opt_name,
                     lbl      |-> pts[k][1],
                     eff_base |-> eff_base,
                     line     |-> line_price(v, pname, product, pts[k][1],
                                             eff_base, quarters)]]

\* The price points of one option that reach the comparison, in order, each
\* with its effective unit price and its line price.
option_points(v, product, opt, meta, date, is_adv, quarters) ==
    LET pname == product.name
        opt_name == option_name(opt, pname)
        pts == price_points(opt)
        open == SelectSeq(pts, LAMBDA p : ~is_restricted_tier(v, p[1], is_adv))
    IN  IF summit_booth_skip(pname, opt_name, is_adv) THEN <<>>
        ELSE [k \in 1..Len(open) |->
                LET eff_base == get_effective_unit_price(
                                    pname, opt_name, open[k][2],
                                    meta_get(meta, pname), date, is_adv)
                IN  [opt_name |-> opt_name,
                     lbl      |-> open[k][1],
                     eff_base |-> eff_base,
                     line     |-> line_price(v, pname, product, open[k][1],
                                             eff_base, quarters)]]

\* The two nested loops over options and price points.
eligible_points(v, product, meta, date, is_adv, quarters) ==
    Concat([o \in 1..Len(product.price_options) |->
              option_points(v, product, product.price_options[o], meta, date,
                            is_adv, quarters)])

\* Mutant of baseline_scan: a later point of equal line price replaces the
\* earlier one.
RECURSIVE baseline_scan_last_tie(_, _, _, _)
baseline_scan_last_tie(points, best, map_policy, budget) ==
    IF points = <<>> THEN best
    ELSE LET c == Head(points)
             take == IF map_policy
                     THEN c.line <= budget /\ (best = <<>> \/ c.line >= best[1].line)
                     ELSE best = <<>> \/ c.line <= best[1].line
         IN  baseline_scan_last_tie(Tail(points), IF take THEN <<c>> ELSE best,
                                    map_policy, budget)

\* Mutant of baseline_scan: the cheapest point for every product.
RECURSIVE baseline_scan_cheapest(_, _, _, _)
baseline_scan_cheapest(points, best, map_policy, budget) ==
    IF points = <<>> THEN best
    ELSE LET c == Head(points)
             take == best = <<>> \/ c.line < best[1].line
         IN  baseline_scan_cheapest(Tail(points), IF take THEN <<c>> ELSE best,
                                    map_policy, budget)

\* The baseline comparison, folded over the points in order.  best is <<>>
\* (None) or <<point>>.
RECURSIVE baseline_scan(_, _, _, _)
baseline_scan(points, best, map_policy, budget) ==
    IF points = <<>> THEN best
    ELSE LET c == Head(points)
             take == IF map_policy
                     THEN c.line <= budget /\ (best = <<>> \/ c.line > best[1].line)
                     ELSE best = <<>> \/ c.line < best[1].line
         IN  baseline_scan(Tail(points), IF take THEN <<c>> ELSE best,
                           map_policy, budget)

\* Mutant of map_policy: the name test never matches, so the Interactive Map
\* gets the cheapest-first baseline of every other product.
map_policy_never(v, pname) ==
    FALSE

\* True for the product and variant that use the highest-under-budget baseline.
map_policy(v, pname) ==
    v = Final /\ pname = MapName

baseline_best(v, product, meta, date, is_adv, quarters, budget) ==
    baseline_scan(eligible_points(v, product, meta, date, is_adv, quarters),
                  <<>>, map_policy(v, product.name), budget)

\* Mutant of sort_by_line: the candidates stay in the order they were found.
sort_by_line_skipped(us) ==
    us

\* upgrades.sort(key=lambda x: x[3]): ascending by line price, stable.
RECURSIVE sort_by_line(_)
sort_by_line(us) ==
    IF us = <<>> THEN <<>>
    ELSE LET s == sort_by_line(SubSeq(us, 1, Len(us) - 1))
             u == us[Len(us)]
             pos == Cardinality({j \in 1..Len(s) : s[j].line <= u.line})
         IN  SubSeq(s, 1, pos) \o <<u>> \o SubSeq(s, pos + 1, Len(s))

\* Mutant of upgrades: the candidates are not filtered by the advertiser flag.
upgrades_unfiltered(v, product, meta, date, is_adv, quarters, cur_line) ==
    sort_by_line(SelectSeq(eligible_points(v, product, meta, date, TRUE, quarters),
                           LAMBDA c : c.line > cur_line))

\* Mutant of upgrades: a point of equal line price is a candidate too.
upgrades_not_cheaper(v, product, meta, date, is_adv, quarters, cur_line) ==
    sort_by_line(SelectSeq(eligible_points(v, product, meta, date, is_adv, quarters),
                           LAMBDA c : c.line >= cur_line))

\* Mutant of upgrades: every point of another line price is a candidate,
\* the cheaper ones too.
upgrades_other(v, product, meta, date, is_adv, quarters, cur_line) ==
    sort_by_line(SelectSeq(eligible_points(v, product, meta, date, is_adv, quarters),
                           LAMBDA c : c.line # cur_line))

\* The upgrade candidates of a product: the points dearer than the current
\* line, cheapest first.
upgrades(v, product, meta, date, is_adv, quarters, cur_line) ==
    sort_by_line(SelectSeq(eligible_points(v, product, meta, date, is_adv, quarters),
                           LAMBDA c : c.line > cur_line))

\* Mutant of first_fit: the cheapest candidate, whether it fits or not.
first_fit_any(ups, sub, cur_line, budget) ==
    IF ups = <<>> THEN <<>> ELSE <<ups[1]>>

\* Mutant of first_fit: a candidate that brings the subtotal to exactly the
\* budget does not fit.
first_fit_below(ups, sub, cur_line, budget) ==
    LET fit == {j \in 1..Len(ups) : sub - cur_line + ups[j].line < budget}
    IN  IF fit = {} THEN <<>>
        ELSE <<ups[CHOOSE j \in fit : \A h \in fit : j <= h]>>

\* The walk over the sorted candidates: the first one that fits, or <<>>.
first_fit(ups, sub, cur_line, budget) ==
    LET fit == {j \in 1..Len(ups) : sub - cur_line + ups[j].line <= budget}
    IN  IF fit = {} THEN <<>>
        ELSE <<ups[CHOOSE j \in fit : \A h \in fit : j <= h]>>

(***************************************************************************)
(* The inputs: product records, metadata, dates, budgets                   *)
(***************************************************************************)
BannerAdName ==
    "Banner Ad"

SummitBoothName ==
    "Summit Booth"

MagazineName ==
    "Magazine Ad"

NewsletterName ==
    "Newsletter"

ListingName ==
    "Web Listing"

DirectoryName ==
    "Directory"

SignageName ==
    "Booth Signage"

SponsoredName ==
    "Sponsored Post"

Lbl1x ==
    "1x"

Lbl4x ==
    "4x"

Lbl2SpX ==
    "2 X"

LblStandard ==
    "Standard"

LblPremium ==
    "Premium"

LblExistingAdvertiserRate ==
    "Existing Advertiser Rate"

LblNonAdvertiserRate ==
    "Non-Advertiser Rate"

LblBundle ==
    "Bundle Price"

LblOpenRate ==
    "Open Rate"

LblNonAdvertiserPriceSpace ==
    "Non Advertiser Price"

LblNonAdvertiserPrice ==
    "Non-Advertiser Price"

LblNonAdvertiserRateSpace ==
    "Non Advertiser Rate"

LblAdvertiserSpecial ==
    "ADVERTISER SPECIAL"

LblExistingAdvertiser ==
    "Existing Advertiser"

LblWithAnyCampaign ==
    "Rate With Any Campaign"

LblContractMultiple ==
    "Contract With Multiple Products"

LblWithCampaign ==
    "Rate with Campaign"

LblAddOn ==
    "Add-On Listing"

LblPackagePrice ==
    "Package Price"

LblNonAdvertiserBundle ==
    "Non-Advertiser Bundle"

OptAdvertiserBooth ==
    "Advertiser Booth"

OptNonAdvertiserBooth ==
    "Non-Advertiser Booth"

OptCornerBooth ==
    "Corner Booth"

OptPerQuarter ==
    "Per Quarter"

OptFullPage ==
    "Full Page"

\* "Banner Ad": one unnamed option with the tiers 1x and 4x.
BannerAd ==
    [name |-> BannerAdName,
     price_options |-> << [points |-> << <<Lbl1x, Dollars(100)>>,
                                         <<Lbl4x, Dollars(350)>> >>] >>]

\* "Chicago Does Interactive Map": per-quarter prices.
InteractiveMap ==
    [name |-> MapName,
     price_options |-> << [name |-> OptPerQuarter,
                           points |-> << <<LblStandard, Dollars(500)>>,
                                         <<LblPremium, Dollars(800)>> >>] >>]

\* "Summit Booth": an advertiser option, a non-advertiser option, a generic one.
SummitBooth ==
    [name |-> SummitBoothName,
     price_options |-> << [name |-> OptAdvertiserBooth,
                           points |-> << <<LblStandard, Dollars(300)>> >>],
                          [name |-> OptNonAdvertiserBooth,
                           points |-> << <<LblStandard, Dollars(450)>> >>],
                          [name |-> OptCornerBooth,
                           points |-> << <<LblStandard, Dollars(600)>> >>] >>]

\* "Magazine Ad": advertiser, non-advertiser, quantity, bundle and open tiers.
MagazineAd ==
    [name |-> MagazineName,
     price_options |-> << [name |-> OptFullPage,
                           points |-> << <<LblExistingAdvertiserRate, Dollars(150)>>,
                                         <<LblNonAdvertiserRate, Dollars(250)>>,
                                         <<Lbl2SpX, Dollars(120)>>,
                                         <<LblBundle, Dollars(90)>>,
                                         <<LblOpenRate, Dollars(200)>> >>] >>]

\* "Newsletter": only an advertiser tier.
Newsletter ==
    [name |-> NewsletterName,
     price_options |-> << [points |-> << <<LblExistingAdvertiserRate, Dollars(90)>> >>] >>]

\* "Web Listing": a price that is not a whole number of cents, twice.
WebListing ==
    [name |-> ListingName,
     price_options |-> << [points |-> << <<Lbl1x, Dollars(100) + 6>>,
                                         <<LblStandard, Dollars(100) + 6>>,
                                         <<LblOpenRate, Dollars(250)>> >>] >>]

\* "Directory": a product without price options.
Directory ==
    [name |-> DirectoryName, price_options |-> <<>>]

\* "Booth Signage": not of the Summit Booth family, with an advertiser and a
\* non-advertiser option.
BoothSignage ==
    [name |-> SignageName,
     price_options |-> << [name |-> OptAdvertiserBooth,
                           points |-> << <<LblStandard, Dollars(200)>> >>],
                          [name |-> OptNonAdvertiserBooth,
                           points |-> << <<LblStandard, Dollars(350)>> >>] >>]

\* "Sponsored Post": an open tier and a cheaper tier sold with a campaign.
SponsoredPost ==
    [name |-> SponsoredName,
     price_options |-> << [points |-> << <<LblOpenRate, Dollars(100)>>,
                                         <<LblWithCampaign, Dollars(60)>> >>] >>]

\* The product dictionaries (name -> ProductRecord), in insertion order.
CatalogSet ==
    { <<BannerAd>>,
      <<InteractiveMap, BannerAd>>,
      <<MagazineAd, InteractiveMap>>,
      <<SummitBooth, MagazineAd>>,
      <<Newsletter, WebListing, Directory>>,
      <<MagazineAd, BannerAd, SummitBooth>> }

\* The metadata dictionary: a seasonal window for Web Listing, an advertiser
\* price for the Corner Booth.
CatalogMeta ==
    (ListingName :> [seasonal |-> << [option |-> ListingName, from |-> 10,
                                      to |-> 20, price |-> Dollars(80) + 4] >>,
                     advertiser |-> <<>>])
    @@ (SummitBoothName :> [seasonal |-> <<>>,
                            advertiser |-> << [option |-> OptCornerBooth,
                                               price |-> Dollars(550)] >>])

MetaSet ==
    { <<>>, CatalogMeta }

\* chosen_date: None, or a day number.
DateSet ==
    { <<>>, Some(15) }

\* interactive_map_quarters: None, or a count.
QuarterSet ==
    { <<>>, Some(0), Some(3), Some(5) }

BudgetSet ==
    { 0, Dollars(100) + 6, Dollars(400), Dollars(500), Dollars(2000) }

\* The tier labels given to a direct call of _is_restricted_tier.
LabelSet ==
    { Lbl1x, Lbl4x, Lbl2SpX, LblStandard, LblPremium, LblExistingAdvertiserRate,
      LblNonAdvertiserRate, LblBundle, LblOpenRate, LblNonAdvertiserPriceSpace,
      LblNonAdvertiserPrice, LblNonAdvertiserRateSpace, LblAdvertiserSpecial,
      LblExistingAdvertiser, LblWithAnyCampaign, LblContractMultiple,
      LblWithCampaign, LblAddOn, LblPackagePrice, LblNonAdvertiserBundle }

\* Number of invocations of greedy_fill_to_cap in one behaviour.
MaxCalls ==
    2

(***************************************************************************)
(* greedy_fill_to_cap as a state machine                                   *)
(***************************************************************************)
VARIABLES
    version,                    \* which upgrader.py runs
    products, meta, chosen_date, is_advertiser, interactive_map_quarters,
    budget,                     \* the arguments
    picks, subtotal,            \* the locals
    forced_overage, improved,
    i,                          \* position of the baseline loop in products
    items, k,                   \* list(picks.items()) of the pass, and the position in it
    pc,                         \* "idle", "baseline", "while", "for", "return", "done"
    baseline,                   \* picks and subtotal when the baseline loop ended
    result,                     \* the returned (Selection, forced_overage)
    calls,                      \* the invocations that have returned
    total_budget, tourist_pct, industry_pct,
    t_set, i_set,               \* the arguments of run_fill_to_cap
    t_budget, i_budget,         \* its locals
    t_sel, t_warn, i_sel, i_warn,
    grand_total, warning_msg,
    rpc,                        \* "none", "entry", "tourist", "industry", "returned"
    runs,                       \* the invocations of run_fill_to_cap that have returned,
                                \* each with its pool arguments and what it computed
    label,                      \* the argument of a direct call of _is_restricted_tier
    restricted                  \* what that call returned, None before it returns

vars ==
    <<version, products, meta, chosen_date, is_advertiser,
      interactive_map_quarters, budget, picks, subtotal, forced_overage,
      improved, i, items, k, pc, baseline, result, calls,
      total_budget, tourist_pct, industry_pct, t_set, i_set, t_budget, i_budget,
      t_sel, t_warn, i_sel, i_warn, grand_total, warning_msg, rpc, runs,
      label, restricted>>

\* The state of run_fill_to_cap, which greedy_fill_to_cap does not touch.
run_vars ==
    <<total_budget, tourist_pct, industry_pct, t_set, i_set, t_budget, i_budget,
      t_sel, t_warn, i_sel, i_warn, grand_total, warning_msg, rpc, runs>>

\* The state of a direct call of _is_restricted_tier.
tier_vars ==
    <<label, restricted>>

args ==
    <<version, products, meta, chosen_date, is_advertiser,
      interactive_map_quarters>>

\* products[pname]
product_named(prods, pname) ==
    prods[CHOOSE n \in 1..Len(prods) : prods[n].name = pname]

\* Mutant of set_pick: the pick is not replaced.
set_pick_stale(pk, pname, c) ==
    pk

\* Mutant of set_pick: the new pick is stored as a further entry, the old one
\* stays.
set_pick_added(pk, pname, c) ==
    Append(pk, [pname |-> pname, opt_name |-> c.opt_name, lbl |-> c.lbl,
                eff_base |-> c.eff_base])

\* picks[pname] = (opt_name, lbl, eff_base), keeping the key's position.
set_pick(pk, pname, c) ==
    [n \in 1..Len(pk) |->
        IF pk[n].pname = pname
        THEN [pname |-> pname, opt_name |-> c.opt_name, lbl |-> c.lbl,
              eff_base |-> c.eff_base]
        ELSE pk[n]]

\* The line price of a pick, from its label and unit price.
pick_line(v, prods, quarters, pick) ==
    line_price(v, pick.pname, product_named(prods, pick.pname), pick.lbl,
               pick.eff_base, quarters)

\* picks = {}; subtotal = 0.0
Entry ==
    /\ picks = <<>>
    /\ subtotal = 0
    /\ forced_overage = FALSE
    /\ improved = FALSE
    /\ i = 1
    /\ items = <<>>
    /\ k = 1
    /\ pc = "baseline"
    /\ baseline = <<>>
    /\ result = <<>>

\* run_fill_to_cap is not running.
RunIdle ==
    /\ total_budget = 0
    /\ tourist_pct = 0
    /\ industry_pct = 0
    /\ t_set = <<>>
    /\ i_set = <<>>
    /\ t_budget = 0
    /\ i_budget = 0
    /\ t_sel = <<>>
    /\ t_warn = FALSE
    /\ i_sel = <<>>
    /\ i_warn = FALSE
    /\ grand_total = 0
    /\ warning_msg = <<>>
    /\ rpc = "none"
    /\ runs = <<>>

\* _is_restricted_tier is not called directly.
TierIdle ==
    /\ label = ""
    /\ restricted = <<>>

Init ==
    /\ version \in {Plain, Final}
    /\ products \in CatalogSet
    /\ meta \in MetaSet
    /\ chosen_date \in DateSet
    /\ is_advertiser \in BOOLEAN
    /\ interactive_map_quarters \in QuarterSet
    /\ budget \in BudgetSet
    /\ calls = <<>>
    /\ Entry
    /\ RunIdle
    /\ TierIdle

\* Mutant of BaselineProduct: best is unpacked without the test "if best:",
\* so a product without an eligible price point raises (pc = "error").
BaselineProductUnguarded ==
    /\ pc = "baseline"
    /\ i <= Len(products)
    /\ LET product == products[i]
           best == baseline_best(version, product, meta, chosen_date,
                                 is_advertiser, interactive_map_quarters, budget)
       IN  IF best # <<>>
           THEN /\ subtotal' = subtotal + line_price(version, product.name, product,
                                                     best[1].lbl, best[1].eff_base,
                                                     interactive_map_quarters)
                /\ picks' = Append(picks, [pname    |-> product.name,
                                           opt_name |-> best[1].opt_name,
                                           lbl      |-> best[1].lbl,
                                           eff_base |-> best[1].eff_base])
                /\ pc' = pc
           ELSE /\ pc' = "error"
                /\ UNCHANGED <<picks, subtotal>>
    /\ i' = i + 1
    /\ UNCHANGED <<args, budget, forced_overage, improved, items, k,
                   baseline, result, calls>>
    /\ UNCHANGED run_vars
    /\ UNCHANGED tier_vars

\* One iteration of the baseline loop: the product at position i.
BaselineProduct ==
    /\ pc = "baseline"
    /\ i <= Len(products)
    /\ LET product == products[i]
           best == baseline_best(version, product, meta, chosen_date,
                                 is_advertiser, interactive_map_quarters, budget)
       IN  IF best # <<>>
           THEN /\ subtotal' = subtotal + line_price(version, product.name, product,
                                                     best[1].lbl, best[1].eff_base,
                                                     interactive_map_quarters)
                /\ picks' = Append(picks, [pname    |-> product.name,
                                           opt_name |-> best[1].opt_name,
                                           lbl      |-> best[1].lbl,
                                           eff_base |-> best[1].eff_base])
           ELSE UNCHANGED <<picks, subtotal>>
    /\ i' = i + 1
    /\ UNCHANGED <<args, budget, forced_overage, improved, items, k, pc,
                   baseline, result, calls>>
    /\ UNCHANGED run_vars
    /\ UNCHANGED tier_vars

\* Mutant of CheckOverage: a subtotal equal to the budget counts as overage.
CheckOverageAtCap ==
    /\ pc = "baseline"
    /\ i > Len(products)
    /\ forced_overage' = (subtotal >= budget)
    /\ baseline' = Some([picks |-> picks, subtotal |-> subtotal])
    /\ IF subtotal >= budget
       THEN pc' = "return" /\ UNCHANGED improved
       ELSE pc' = "while" /\ improved' = TRUE
    /\ UNCHANGED <<args, budget, picks, subtotal, i, items, k, result, calls>>
    /\ UNCHANGED run_vars
    /\ UNCHANGED tier_vars

\* forced_overage = subtotal > budget; if not forced_overage: improved = True
CheckOverage ==
    /\ pc = "baseline"
    /\ i > Len(products)
    /\ forced_overage' = (subtotal > budget)
    /\ baseline' = Some([picks |-> picks, subtotal |-> subtotal])
    /\ IF subtotal > budget
       THEN pc' = "return" /\ UNCHANGED improved
       ELSE pc' = "while" /\ improved' = TRUE
    /\ UNCHANGED <<args, budget, picks, subtotal, i, items, k, result, calls>>
    /\ UNCHANGED run_vars
    /\ UNCHANGED tier_vars

\* while improved: improved = False; for ... in list(picks.items()):
BeginPass ==
    /\ pc = "while"
    /\ improved
    /\ improved' = FALSE
    /\ items' = picks
    /\ k' = 1
    /\ pc' = "for"
    /\ UNCHANGED <<args, budget, picks, subtotal, forced_overage, i, baseline,
                   result, calls>>
    /\ UNCHANGED run_vars
    /\ UNCHANGED tier_vars

\* while improved: the test fails
ExitLoop ==
    /\ pc = "while"
    /\ ~improved
    /\ pc' = "return"
    /\ UNCHANGED <<args, budget, picks, subtotal, forced_overage, improved, i,
                   items, k, baseline, result, calls>>
    /\ UNCHANGED run_vars
    /\ UNCHANGED tier_vars

\* Mutant of VisitProduct: without the break, the product that was upgraded
\* is tried again at once.
VisitProductAgain ==
    /\ pc = "for"
    /\ k <= Len(items)
    /\ LET cur == items[k]
           product == product_named(products, cur.pname)
           cur_line == line_price(version, cur.pname, product, cur.lbl,
                                  cur.eff_base, interactive_map_quarters)
           ups == upgrades(version, product, meta, chosen_date, is_advertiser,
                           interactive_map_quarters, cur_line)
           fit == first_fit(ups, subtotal, cur_line, budget)
       IN  IF fit # <<>>
           THEN /\ subtotal' = subtotal - cur_line + fit[1].line
                /\ picks' = set_pick(picks, cur.pname, fit[1])
                /\ improved' = TRUE
                /\ items' = set_pick(items, cur.pname, fit[1])
                /\ k' = k
           ELSE /\ UNCHANGED <<picks, subtotal, improved, items>>
                /\ k' = k + 1
    /\ UNCHANGED <<args, budget, forced_overage, i, pc, baseline,
                   result, calls>>
    /\ UNCHANGED run_vars
    /\ UNCHANGED tier_vars

\* One iteration of the for loop of a pass: the product at position k.
VisitProduct ==
    /\ pc = "for"
    /\ k <= Len(items)
    /\ LET cur == items[k]
           product == product_named(products, cur.pname)
           cur_line == line_price(version, cur.pname, product, cur.lbl,
                                  cur.eff_base, interactive_map_quarters)
           ups == upgrades(version, product, meta, chosen_date, is_advertiser,
                           interactive_map_quarters, cur_line)
           fit == first_fit(ups, subtotal, cur_line, budget)
       IN  IF fit # <<>>
           THEN /\ subtotal' = subtotal - cur_line + fit[1].line
                /\ picks' = set_pick(picks, cur.pname, fit[1])
                /\ improved' = TRUE
           ELSE UNCHANGED <<picks, subtotal, improved>>
    /\ k' = k + 1
    /\ UNCHANGED <<args, budget, forced_overage, i, items, pc, baseline,
                   result, calls>>
    /\ UNCHANGED run_vars
    /\ UNCHANGED tier_vars

\* The for loop of a pass is exhausted: back to the while test.
EndPass ==
    /\ pc = "for"
    /\ k > Len(items)
    /\ pc' = "while"
    /\ UNCHANGED <<args, budget, picks, subtotal, forced_overage, improved, i,
                   items, k, baseline, result, calls>>
    /\ UNCHANGED run_vars
    /\ UNCHANGED tier_vars

\* return Selection(picks=picks, subtotal=round(subtotal, 2)), forced_overage
Return ==
    /\ pc = "return"
    /\ result' = Some([picks |-> picks, subtotal |-> Round2(subtotal),
                       forced_overage |-> forced_overage])
    /\ calls' = Append(calls, [budget |-> budget,
                               picks |-> picks,
                               subtotal |-> Round2(subtotal),
                               forced_overage |-> forced_overage,
                               baseline |-> baseline[1]])
    /\ pc' = "done"
    /\ UNCHANGED <<args, budget, picks, subtotal, forced_overage, improved, i,
                   items, k, baseline>>
    /\ UNCHANGED run_vars
    /\ UNCHANGED tier_vars

\* A further invocation with the same products, metadata, date, flag and
\* quarter count, and a budget that is not smaller.
NextCall ==
    /\ pc = "done"
    /\ Len(calls) < MaxCalls
    /\ budget' \in {b \in BudgetSet : b >= budget}
    /\ picks' = <<>>
    /\ subtotal' = 0
    /\ forced_overage' = FALSE
    /\ improved' = FALSE
    /\ i' = 1
    /\ items' = <<>>
    /\ k' = 1
    /\ pc' = "baseline"
    /\ baseline' = <<>>
    /\ result' = <<>>
    /\ UNCHANGED <<args, calls>>
    /\ UNCHANGED run_vars
    /\ UNCHANGED tier_vars

Next ==
    \/ BaselineProduct
    \/ CheckOverage
    \/ BeginPass
    \/ ExitLoop
    \/ VisitProduct
    \/ EndPass
    \/ Return
    \/ NextCall

Spec ==
    Init /\ [][Next]_vars

(***************************************************************************)
(* One invocation of greedy_fill_to_cap                                    *)
(***************************************************************************)
Call ==
    \/ BaselineProduct
    \/ CheckOverage
    \/ BeginPass
    \/ ExitLoop
    \/ VisitProduct
    \/ EndPass
    \/ Return

CallSpec ==
    Init /\ [][Call]_vars

(***************************************************************************)
(* run_fill_to_cap                                                         *)
(***************************************************************************)
WarningText ==
    "Heads up: Even with the most cost-effective options selected, the current budget distribution cannot support this product mix."

\* Mutant of pool_budget: an even split, whatever the percentage.
pool_budget_half(total, pct) ==
    total \div 2

\* total_budget * (pct / 100.0).  The totals are whole currency units and the
\* percentages whole numbers, so the quotient is a whole number of mills.
pool_budget(total, pct) ==
    (total * pct) \div 100

\* Mutant of grand_total_of: the industry subtotal is left out.
grand_total_tourist(t_subtotal, i_subtotal) ==
    Round2(t_subtotal)

\* round(t_sel.subtotal + i_sel.subtotal, 2)
grand_total_of(t_subtotal, i_subtotal) ==
    Round2(t_subtotal + i_subtotal)

\* Mutant of warning_of: the warning needs both pools in forced overage.
warning_of_both(tw, iw) ==
    IF tw /\ iw THEN Some(WarningText) ELSE <<>>

\* warning_msg = None; if t_warn or i_warn: warning_msg = "Heads up: ..."
warning_of(tw, iw) ==
    IF tw \/ iw THEN Some(WarningText) ELSE <<>>

\* Mutant of Enter: the subtotal of the previous invocation is kept.
EnterKeepSubtotal(b, prods) ==
    /\ budget' = b
    /\ products' = prods
    /\ picks' = <<>>
    /\ subtotal' = subtotal
    /\ forced_overage' = FALSE
    /\ improved' = FALSE
    /\ i' = 1
    /\ items' = <<>>
    /\ k' = 1
    /\ pc' = "baseline"
    /\ baseline' = <<>>
    /\ result' = <<>>
    /\ UNCHANGED <<version, meta, chosen_date, is_advertiser,
                   interactive_map_quarters, calls>>

\* greedy_fill_to_cap(b, prods, meta, chosen_date, is_advertiser=...,
\* interactive_map_quarters=...): the call binds the arguments and the body
\* starts with picks = {} and subtotal = 0.0.
Enter(b, prods) ==
    /\ budget' = b
    /\ products' = prods
    /\ picks' = <<>>
    /\ subtotal' = 0
    /\ forced_overage' = FALSE
    /\ improved' = FALSE
    /\ i' = 1
    /\ items' = <<>>
    /\ k' = 1
    /\ pc' = "baseline"
    /\ baseline' = <<>>
    /\ result' = <<>>
    /\ UNCHANGED <<version, meta, chosen_date, is_advertiser,
                   interactive_map_quarters, calls>>

\* The tourist and the industry product sets.
TouristSet ==
    { <<InteractiveMap, BannerAd>>, <<Newsletter, WebListing, Directory>> }

IndustrySet ==
    { <<BannerAd>>, <<SummitBooth, MagazineAd>> }

TotalSet ==
    { Dollars(1000), Dollars(10000) }

\* tourist_pct, industry_pct: they need not sum to 100.
PctSet ==
    { 0, 40, 60 }

RunQuarterSet ==
    { <<>>, Some(3) }

\* Number of invocations of run_fill_to_cap in one behaviour, all with the
\* same arguments.
MaxRuns ==
    2

RunInit ==
    /\ version \in {Plain, Final}
    /\ total_budget \in TotalSet
    /\ tourist_pct \in PctSet
    /\ industry_pct \in PctSet
    /\ t_set \in TouristSet
    /\ i_set \in IndustrySet
    /\ meta \in MetaSet
    /\ chosen_date \in DateSet
    /\ is_advertiser \in BOOLEAN
    /\ interactive_map_quarters \in RunQuarterSet
    /\ t_budget = 0
    /\ i_budget = 0
    /\ t_sel = <<>>
    /\ t_warn = FALSE
    /\ i_sel = <<>>
    /\ i_warn = FALSE
    /\ grand_total = 0
    /\ warning_msg = <<>>
    /\ rpc = "entry"
    /\ runs = <<>>
    /\ products = <<>>
    /\ budget = 0
    /\ picks = <<>>
    /\ subtotal = 0
    /\ forced_overage = FALSE
    /\ improved = FALSE
    /\ i = 1
    /\ items = <<>>
    /\ k = 1
    /\ pc = "idle"
    /\ baseline = <<>>
    /\ result = <<>>
    /\ calls = <<>>
    /\ TierIdle

\* t_budget = ...; i_budget = ...; t_sel, t_warn = greedy_fill_to_cap(t_budget, t_set, ...)
CallTourist ==
    /\ rpc = "entry"
    /\ t_budget' = pool_budget(total_budget, tourist_pct)
    /\ i_budget' = pool_budget(total_budget, industry_pct)
    /\ Enter(pool_budget(total_budget, tourist_pct), t_set)
    /\ rpc' = "tourist"
    /\ UNCHANGED <<total_budget, tourist_pct, industry_pct, t_set, i_set,
                   t_sel, t_warn, i_sel, i_warn, grand_total, warning_msg, runs>>
    /\ UNCHANGED tier_vars

\* Mutant of CallIndustry: what the tourist pool left unspent is added to
\* the industry budget.
CallIndustryLeftover ==
    /\ rpc = "tourist"
    /\ pc = "done"
    /\ t_sel' = Some([picks |-> result[1].picks, subtotal |-> result[1].subtotal])
    /\ t_warn' = result[1].forced_overage
    /\ Enter(IF t_budget > result[1].subtotal
             THEN i_budget + (t_budget - result[1].subtotal)
             ELSE i_budget,
             i_set)
    /\ rpc' = "industry"
    /\ UNCHANGED <<total_budget, tourist_pct, industry_pct, t_set, i_set,
                   t_budget, i_budget, i_sel, i_warn, grand_total, warning_msg,
                   runs>>
    /\ UNCHANGED tier_vars

\* The tourist call has returned; i_sel, i_warn = greedy_fill_to_cap(i_budget, i_set, ...)
CallIndustry ==
    /\ rpc = "tourist"
    /\ pc = "done"
    /\ t_sel' = Some([picks |-> result[1].picks, subtotal |-> result[1].subtotal])
    /\ t_warn' = result[1].forced_overage
    /\ Enter(i_budget, i_set)
    /\ rpc' = "industry"
    /\ UNCHANGED <<total_budget, tourist_pct, industry_pct, t_set, i_set,
                   t_budget, i_budget, i_sel, i_warn, grand_total, warning_msg,
                   runs>>
    /\ UNCHANGED tier_vars

\* The industry call has returned; grand_total, warning_msg and the return.
RunReturn ==
    /\ rpc = "industry"
    /\ pc = "done"
    /\ LET sel == [picks |-> result[1].picks, subtotal |-> result[1].subtotal]
           warn == result[1].forced_overage
           total == grand_total_of(t_sel[1].subtotal, sel.subtotal)
           msg == warning_of(t_warn, warn)
       IN  /\ i_sel' = Some(sel)
           /\ i_warn' = warn
           /\ grand_total' = total
           /\ warning_msg' = msg
           /\ runs' = Append(runs, [t_sel |-> t_sel[1], i_sel |-> sel,
                                    grand_total |-> total, warning_msg |-> msg,
                                    t_warn |-> t_warn, i_warn |-> warn,
                                    tourist_pct |-> tourist_pct,
                                    industry_pct |-> industry_pct,
                                    t_set |-> t_set, i_set |-> i_set])
    /\ rpc' = "returned"
    /\ UNCHANGED <<total_budget, tourist_pct, industry_pct, t_set, i_set,
                   t_budget, i_budget, t_sel, t_warn>>
    /\ UNCHANGED <<args, budget, picks, subtotal, forced_overage, improved, i,
                   items, k, pc, baseline, result, calls>>
    /\ UNCHANGED tier_vars

\* A further invocation of run_fill_to_cap with the same arguments.
RunAgain ==
    /\ rpc = "returned"
    /\ Len(runs) < MaxRuns
    /\ t_budget' = 0
    /\ i_budget' = 0
    /\ t_sel' = <<>>
    /\ t_warn' = FALSE
    /\ i_sel' = <<>>
    /\ i_warn' = FALSE
    /\ grand_total' = 0
    /\ warning_msg' = <<>>
    /\ rpc' = "entry"
    /\ UNCHANGED <<total_budget, tourist_pct, industry_pct, t_set, i_set, runs>>
    /\ UNCHANGED <<args, budget, picks, subtotal, forced_overage, improved, i,
                   items, k, pc, baseline, result, calls>>
    /\ UNCHANGED tier_vars

RunNext ==
    \/ CallTourist
    \/ BaselineProduct
    \/ CheckOverage
    \/ BeginPass
    \/ ExitLoop
    \/ VisitProduct
    \/ EndPass
    \/ Return
    \/ CallIndustry
    \/ RunReturn
    \/ RunAgain

RunSpec ==
    RunInit /\ [][RunNext]_vars

(***************************************************************************)
(* run_fill_to_cap called twice, the second time with other pool arguments *)
(***************************************************************************)
\* The locals of run_fill_to_cap before its first statement.
RunEntry ==
    /\ t_budget' = 0
    /\ i_budget' = 0
    /\ t_sel' = <<>>
    /\ t_warn' = FALSE
    /\ i_sel' = <<>>
    /\ i_warn' = FALSE
    /\ grand_total' = 0
    /\ warning_msg' = <<>>
    /\ rpc' = "entry"
    /\ UNCHANGED <<total_budget, runs>>
    /\ UNCHANGED <<args, budget, picks, subtotal, forced_overage, improved, i,
                   items, k, pc, baseline, result, calls>>
    /\ UNCHANGED tier_vars

PoolInit ==
    /\ RunInit
    /\ meta = CatalogMeta
    /\ chosen_date = Some(15)
    /\ interactive_map_quarters = Some(3)

\* The second invocation: another industry_pct or industry product set.
RunOtherIndustry ==
    /\ rpc = "returned"
    /\ Len(runs) = 1
    /\ industry_pct' \in PctSet
    /\ i_set' \in IndustrySet
    /\ UNCHANGED <<tourist_pct, t_set>>
    /\ RunEntry

\* The second invocation: another tourist_pct or tourist product set.
RunOtherTourist ==
    /\ rpc = "returned"
    /\ Len(runs) = 1
    /\ tourist_pct' \in PctSet
    /\ t_set' \in TouristSet
    /\ UNCHANGED <<industry_pct, i_set>>
    /\ RunEntry

\* The second invocation: the two pools change places, so each product set
\* is allocated in the other position.
RunSwapped ==
    /\ rpc = "returned"
    /\ Len(runs) = 1
    /\ tourist_pct' = industry_pct
    /\ industry_pct' = tourist_pct
    /\ t_set' = i_set
    /\ i_set' = t_set
    /\ RunEntry

PoolNext ==
    \/ CallTourist
    \/ BaselineProduct
    \/ CheckOverage
    \/ BeginPass
    \/ ExitLoop
    \/ VisitProduct
    \/ EndPass
    \/ Return
    \/ CallIndustry
    \/ RunReturn
    \/ RunOtherIndustry
    \/ RunOtherTourist
    \/ RunSwapped

PoolSpec ==
    PoolInit /\ [][PoolNext]_vars

(***************************************************************************)
(* The same arguments given to CloudVersion, then to CloudVersion_Final    *)
(***************************************************************************)
\* Product dictionaries without "Chicago Does Interactive Map".
EquivCatalogSet ==
    { <<BannerAd>>,
      <<SummitBooth, MagazineAd>>,
      <<Newsletter, WebListing, Directory>>,
      <<SponsoredPost, BannerAd>> }

\* CloudVersion's greedy_fill_to_cap has no interactive_map_quarters.
EquivInit ==
    /\ version = Plain
    /\ products \in EquivCatalogSet
    /\ meta \in MetaSet
    /\ chosen_date \in DateSet
    /\ is_advertiser \in BOOLEAN
    /\ interactive_map_quarters = <<>>
    /\ budget \in BudgetSet
    /\ calls = <<>>
    /\ Entry
    /\ RunIdle
    /\ TierIdle

\* CloudVersion has returned: CloudVersion_Final is called with the same
\* budget, products, metadata, date and flag, and any quarter count.
CallFinal ==
    /\ pc = "done"
    /\ version = Plain
    /\ version' = Final
    /\ interactive_map_quarters' \in QuarterSet
    /\ picks' = <<>>
    /\ subtotal' = 0
    /\ forced_overage' = FALSE
    /\ improved' = FALSE
    /\ i' = 1
    /\ items' = <<>>
    /\ k' = 1
    /\ pc' = "baseline"
    /\ baseline' = <<>>
    /\ result' = <<>>
    /\ UNCHANGED <<products, meta, chosen_date, is_advertiser, budget, calls>>
    /\ UNCHANGED run_vars
    /\ UNCHANGED tier_vars

EquivNext ==
    \/ BaselineProduct
    \/ CheckOverage
    \/ BeginPass
    \/ ExitLoop
    \/ VisitProduct
    \/ EndPass
    \/ Return
    \/ CallFinal

EquivSpec ==
    EquivInit /\ [][EquivNext]_vars

(***************************************************************************)
(* One invocation on catalogs with option names that carry audience markers *)
(***************************************************************************)
BoothCatalogSet ==
    { <<SummitBooth>>,
      <<SummitBooth, MagazineAd>>,
      <<BoothSignage, SummitBooth>> }

BoothBudgetSet ==
    { 0, Dollars(500), Dollars(800), Dollars(2000) }

BoothInit ==
    /\ version \in {Plain, Final}
    /\ products \in BoothCatalogSet
    /\ meta \in MetaSet
    /\ chosen_date \in DateSet
    /\ is_advertiser \in BOOLEAN
    /\ interactive_map_quarters \in {<<>>, Some(3)}
    /\ budget \in BoothBudgetSet
    /\ calls = <<>>
    /\ Entry
    /\ RunIdle
    /\ TierIdle

BoothSpec ==
    BoothInit /\ [][Call]_vars

(***************************************************************************)
(* _is_restricted_tier called on its own                                   *)
(***************************************************************************)
TierInit ==
    /\ version \in {Plain, Final}
    /\ label \in LabelSet
    /\ is_advertiser \in BOOLEAN
    /\ restricted = <<>>
    /\ products = <<>>
    /\ meta = <<>>
    /\ chosen_date = <<>>
    /\ interactive_map_quarters = <<>>
    /\ budget = 0
    /\ picks = <<>>
    /\ subtotal = 0
    /\ forced_overage = FALSE
    /\ improved = FALSE
    /\ i = 1
    /\ items = <<>>
    /\ k = 1
    /\ pc = "idle"
    /\ baseline = <<>>
    /\ result = <<>>
    /\ calls = <<>>
    /\ RunIdle

\* _is_restricted_tier(label, is_advertiser) runs and returns.
IsRestrictedTierCall ==
    /\ restricted = <<>>
    /\ restricted' = Some(is_restricted_tier(version, label, is_advertiser))
    /\ UNCHANGED <<label, args, budget, picks, subtotal, forced_overage, improved,
                   i, items, k, pc, baseline, result, calls>>
    /\ UNCHANGED run_vars

TierNext ==
    IsRestrictedTierCall

TierSpec ==
    TierInit /\ [][TierNext]_vars

(***************************************************************************)
(* Properties                                                              *)
(***************************************************************************)
\* Sum of the line prices of a sequence of picks.
RECURSIVE picks_total(_, _, _, _)
picks_total(v, prods, quarters, pk) ==
    IF pk = <<>> THEN 0
    ELSE pick_line(v, prods, quarters, Head(pk))
         + picks_total(v, prods, quarters, Tail(pk))

\* The pick and the price point are the same (option name, tier label, unit price).
same_point(pick, c) ==
    /\ pick.opt_name = c.opt_name
    /\ pick.lbl = c.lbl
    /\ pick.eff_base = c.eff_base

has_pick(pk, pname) ==
    \E n \in 1..Len(pk) : pk[n].pname = pname

pick_of(pk, pname) ==
    pk[CHOOSE n \in 1..Len(pk) : pk[n].pname = pname]

\* The baseline loop has ended.
AfterBaseline ==
    baseline # <<>>

\* An upgrade has been applied in this invocation.
Upgraded ==
    AfterBaseline /\ picks # baseline[1].picks

\* C1 as stated: without forced overage the running subtotal is within the
\* budget after the baseline and after every upgrade step, and so is the
\* returned subtotal.
C1_ReturnedWithinBudget ==
    /\ AfterBaseline /\ ~forced_overage => subtotal <= budget
    /\ result # <<>> /\ ~result[1].forced_overage => result[1].subtotal <= budget

\* C1 amended: without forced overage the running (unrounded) subtotal is
\* within the budget after the baseline and after every upgrade step; the
\* returned subtotal is that value rounded to cents, so it exceeds the budget
\* by at most half a cent.
C1_RunningWithinBudget ==
    /\ AfterBaseline /\ ~forced_overage => subtotal <= budget
    /\ result # <<>> /\ ~result[1].forced_overage =>
          /\ result[1].subtotal = Round2(subtotal)
          /\ 2 * (result[1].subtotal - budget) <= MillsPerCent

C1_Witness ==
    pc = "done" /\ ~forced_overage /\ Upgraded

\* C2: once the baseline loop has ended, subtotal is the sum of the line
\* prices of the current picks (unit price x quarters for the Interactive
\* Map, unit price x tier quantity otherwise), and the returned subtotal is
\* that sum rounded to two decimals.
C2_SubtotalIsSum ==
    /\ AfterBaseline =>
          subtotal = picks_total(version, products, interactive_map_quarters, picks)
    /\ result # <<>> =>
          result[1].subtotal =
              Round2(picks_total(version, products, interactive_map_quarters,
                                 result[1].picks))

C2_Witness ==
    /\ pc = "done"
    /\ Upgraded
    /\ Len(picks) >= 2
    /\ has_pick(picks, MapName)
    /\ version = Final
    /\ interactive_map_quarters = Some(3)

\* C3: forced_overage is returned true exactly when the sum of the baseline
\* picks' line prices exceeds the budget; then no pass of the upgrade loop
\* has begun and the returned picks are the baseline picks.
C3_ForcedOverage ==
    /\ AfterBaseline =>
          (forced_overage <=>
              picks_total(version, products, interactive_map_quarters,
                          baseline[1].picks) > budget)
    /\ forced_overage =>
          /\ pc \in {"return", "done"}
          /\ items = <<>>
          /\ picks = baseline[1].picks
    /\ result # <<>> =>
          /\ result[1].forced_overage = forced_overage
          /\ forced_overage => result[1].picks = baseline[1].picks

C3_Witness ==
    pc = "done" /\ result[1].forced_overage /\ Len(result[1].picks) >= 2

\* C4: of two invocations that differ only in the budget, if the one with the
\* smaller budget returns no forced overage then neither does the other.
C4_OverageMonotone ==
    \A a, b \in 1..Len(calls) :
        calls[a].budget < calls[b].budget /\ ~calls[a].forced_overage
            => ~calls[b].forced_overage

\* C5: of two invocations that differ only in the budget, the one with the
\* larger budget returns a subtotal that is not smaller.
C5_SubtotalMonotone ==
    \A a, b \in 1..Len(calls) :
        calls[a].budget < calls[b].budget
            => calls[a].subtotal <= calls[b].subtotal

C5_Witness ==
    /\ Len(calls) = 2
    /\ calls[1].budget < calls[2].budget
    /\ calls[1].subtotal < calls[2].subtotal
    /\ ~calls[1].forced_overage
    /\ calls[2].picks # calls[2].baseline.picks

\* The price point of a product that a pick names: an option of that name
\* with a point of that label whose effective unit price is the pick's.
is_price_point(pick) ==
    LET product == product_named(products, pick.pname)
    IN  \E o \in 1..Len(product.price_options) :
            LET opt == product.price_options[o]
            IN  /\ option_name(opt, pick.pname) = pick.opt_name
                /\ \E n \in 1..Len(opt.points) :
                       /\ opt.points[n][1] = pick.lbl
                       /\ get_effective_unit_price(
                              pick.pname, pick.opt_name, opt.points[n][2],
                              meta_get(meta, pick.pname), chosen_date,
                              is_advertiser) = pick.eff_base

\* C6: every pick, of the baseline or installed by an upgrade, is a price
\* point of its product whose tier label passes the tier filter and whose
\* option passes the Summit Booth option filter under the advertiser flag; a
\* non-advertiser is never given the tier "Existing Advertiser Rate".
C6_PicksEligible ==
    \A n \in 1..Len(picks) :
        /\ is_price_point(picks[n])
        /\ ~is_restricted_tier(version, picks[n].lbl, is_advertiser)
        /\ ~summit_booth_skip(picks[n].pname, picks[n].opt_name, is_advertiser)
        /\ ~is_advertiser => picks[n].lbl # LblExistingAdvertiserRate
        /\ result # <<>> => result[1].picks = picks

C6_Witness ==
    /\ pc = "done"
    /\ ~is_advertiser
    /\ has_pick(picks, MagazineName)
    /\ pick_of(picks, MagazineName) # pick_of(baseline[1].picks, MagazineName)

\* The first position of the points with the least line price.
first_cheapest(points) ==
    CHOOSE n \in 1..Len(points) :
        \A m \in 1..Len(points) :
            /\ m < n => points[m].line > points[n].line
            /\ m >= n => points[m].line >= points[n].line

\* C7: the baseline pick of a product other than the Interactive Map is the
\* first eligible price point, in option order and then point order, of
\* minimum line price, whatever the budget.  baseline keeps the phase-1 picks
\* unchanged until the return, where they are examined.
C7_BaselineCheapest ==
    /\ result # <<>> =>
          \A n \in 1..Len(products) :
              LET pts == eligible_points(version, products[n], meta, chosen_date,
                                         is_advertiser, interactive_map_quarters)
              IN  products[n].name # MapName /\ pts # <<>> =>
                      /\ has_pick(baseline[1].picks, products[n].name)
                      /\ same_point(pick_of(baseline[1].picks, products[n].name),
                                    pts[first_cheapest(pts)])
    /\ \A a, b \in 1..Len(calls) : \A n \in 1..Len(calls[a].baseline.picks) :
          LET pick == calls[a].baseline.picks[n]
          IN  pick.pname # MapName =>
                  /\ has_pick(calls[b].baseline.picks, pick.pname)
                  /\ pick_of(calls[b].baseline.picks, pick.pname) = pick

C7_Witness ==
    /\ Len(calls) = 2
    /\ calls[1].budget < calls[2].budget
    /\ has_pick(calls[2].baseline.picks, ListingName)
    /\ pick_of(calls[2].baseline.picks, ListingName).lbl = Lbl1x

\* The first position of the points with the greatest line price among the
\* positions in fits.
first_dearest(points, fits) ==
    CHOOSE n \in fits :
        \A m \in fits :
            /\ m < n => points[m].line < points[n].line
            /\ m >= n => points[m].line <= points[n].line

\* C8: in CloudVersion_Final the baseline pick of the Interactive Map is the
\* first eligible price point of maximum line price (unit price x quarters)
\* among those whose line price is within the budget, and the product has no
\* pick when no eligible point is within the budget.  With unit price 500 and
\* budget 2000, 3 quarters give the line 1500 and a pick, 5 quarters give the
\* line 2500 and no pick.  baseline keeps the phase-1 picks unchanged until
\* the return, where they are examined.
C8_MapBaseline ==
    result # <<>> /\ version = Final =>
        \A n \in 1..Len(products) :
            products[n].name = MapName =>
                LET pts == eligible_points(version, products[n], meta, chosen_date,
                                           is_advertiser, interactive_map_quarters)
                    fits == {m \in 1..Len(pts) : pts[m].line <= budget}
                    bp == baseline[1].picks
                IN  /\ IF fits = {} THEN ~has_pick(bp, MapName)
                       ELSE /\ has_pick(bp, MapName)
                            /\ same_point(pick_of(bp, MapName),
                                          pts[first_dearest(pts, fits)])
                    /\ budget = Dollars(2000) /\ interactive_map_quarters = Some(3) =>
                          /\ has_pick(bp, MapName)
                          /\ pick_of(bp, MapName).eff_base = Dollars(500)
                          /\ pick_line(version, products, interactive_map_quarters,
                                       pick_of(bp, MapName)) = Dollars(1500)
                    /\ budget = Dollars(2000) /\ interactive_map_quarters = Some(5) =>
                          ~has_pick(bp, MapName)

C8_Witness ==
    /\ pc = "done"
    /\ version = Final
    /\ budget = Dollars(2000)
    /\ interactive_map_quarters = Some(3)
    /\ has_pick(baseline[1].picks, MapName)

\* The inputs of the Banner Ad scenario, after the return.
BannerAdScenario ==
    /\ products = <<BannerAd>>
    /\ budget = Dollars(400)
    /\ is_advertiser
    /\ result # <<>>

\* C9 as stated: Banner Ad with the points ("1x", 100) and ("4x", 350), budget
\* 400, advertiser: the baseline is "1x", the upgrade loop moves the pick to
\* "4x", and the call returns subtotal 350 without forced overage.
C9_BannerAdUpgraded ==
    BannerAdScenario =>
        /\ baseline[1].picks[1].lbl = Lbl1x
        /\ result[1].picks[1].lbl = Lbl4x
        /\ result[1].subtotal = Dollars(350)
        /\ ~result[1].forced_overage

\* C9 amended: in that scenario the baseline is "1x" with line price 100; the
\* line price of "4x" is 4 x 350 = 1400, above the budget, so no upgrade is
\* applied and the call returns the pick "1x", subtotal 100, without forced
\* overage.
C9_BannerAdKept ==
    BannerAdScenario =>
        /\ baseline[1].picks[1].lbl = Lbl1x
        /\ result[1].picks = baseline[1].picks
        /\ result[1].subtotal = Dollars(100)
        /\ ~result[1].forced_overage
        /\ line_price(version, BannerAdName, BannerAd, Lbl4x, Dollars(350),
                      interactive_map_quarters) = Dollars(1400)

C9_Witness ==
    BannerAdScenario /\ pc = "done" /\ Len(result[1].picks) = 1

\* A product has a price point that can be picked: its option passes the
\* option filter, its label passes the tier filter and, for the Interactive
\* Map of CloudVersion_Final, its line price is within the budget.
has_eligible(product) ==
    \E o \in 1..Len(product.price_options) :
        LET opt == product.price_options[o]
            opt_name == option_name(opt, product.name)
        IN  /\ ~summit_booth_skip(product.name, opt_name, is_advertiser)
            /\ \E n \in 1..Len(opt.points) :
                   /\ ~is_restricted_tier(version, opt.points[n][1], is_advertiser)
                   /\ map_policy(version, product.name) =>
                          line_price(version, product.name, product,
                                     opt.points[n][1],
                                     get_effective_unit_price(
                                         product.name, opt_name, opt.points[n][2],
                                         meta_get(meta, product.name),
                                         chosen_date, is_advertiser),
                                     interactive_map_quarters) <= budget

C12_WarningIffOverage ==
    rpc = "returned" =>
        LET n == Len(calls)
        IN  /\ warning_msg # <<>> <=>
                   (calls[n - 1].forced_overage \/ calls[n].forced_overage)
            /\ warning_msg # <<>> => warning_msg = Some(WarningText)
            /\ runs[Len(runs)].warning_msg = warning_msg

C12_Witness ==
    /\ rpc = "returned"
    /\ calls[Len(calls) - 1].forced_overage
    /\ ~calls[Len(calls)].forced_overage
    /\ warning_msg = Some(WarningText)

\* C13: the tourist pool runs with the budget total_budget * tourist_pct / 100
\* and the industry pool with total_budget * industry_pct / 100, each whatever
\* the other percentage is; a total of 10000 split 60/40 gives 6000 and 4000.
C13_PoolBudgets ==
    /\ rpc \in {"tourist", "industry", "returned"} =>
          /\ 100 * t_budget = total_budget * tourist_pct
          /\ 100 * i_budget = total_budget * industry_pct
    /\ rpc = "tourist" => budget = t_budget /\ products = t_set
    /\ rpc = "industry" => budget = i_budget /\ products = i_set
    /\ rpc = "returned" =>
          /\ calls[Len(calls) - 1].budget = t_budget
          /\ calls[Len(calls)].budget = i_budget
    /\ /\ rpc = "returned"
       /\ total_budget = Dollars(10000)
       /\ tourist_pct = 60
       /\ industry_pct = 40
       => t_budget = Dollars(6000) /\ i_budget = Dollars(4000)

C13_Witness ==
    /\ rpc = "returned"
    /\ total_budget = Dollars(10000)
    /\ tourist_pct = 60
    /\ industry_pct = 60
    /\ calls[Len(calls) - 1].budget = Dollars(6000)
    /\ calls[Len(calls)].budget = Dollars(6000)

\* C14: grand_total is the subtotal of the tourist Selection plus the subtotal
\* of the industry Selection, rounded to two decimals, also when a pool is in
\* forced overage.  Both subtotals are already rounded, so the sum is exact.
C14_GrandTotal ==
    rpc = "returned" =>
        LET n == Len(calls)
        IN  /\ t_sel[1].subtotal = calls[n - 1].subtotal
            /\ i_sel[1].subtotal = calls[n].subtotal
            /\ grand_total = Round2(calls[n - 1].subtotal + calls[n].subtotal)
            /\ grand_total = calls[n - 1].subtotal + calls[n].subtotal
            /\ runs[Len(runs)].grand_total = grand_total

C14_Witness ==
    /\ rpc = "returned"
    /\ t_warn
    /\ i_warn
    /\ t_sel[1].subtotal = Dollars(100) + Cents(1)
    /\ i_sel[1].subtotal > 0
    /\ grand_total = t_sel[1].subtotal + i_sel[1].subtotal

\* The line price the claim states: unit price x quarter count for the
\* Interactive Map, the count taken as 1 when it is zero or absent, and unit
\* price x tier quantity for every other product.
stated_line(pname, lbl, eff_base) ==
    IF pname = MapName
    THEN eff_base * (IF interactive_map_quarters = <<>> THEN 1
                     ELSE IF interactive_map_quarters[1] = 0 THEN 1
                     ELSE interactive_map_quarters[1])
    ELSE eff_base * qty_from_tier(lbl)

RECURSIVE stated_total(_)
stated_total(pk) ==
    IF pk = <<>> THEN 0
    ELSE stated_line(Head(pk).pname, Head(pk).lbl, Head(pk).eff_base)
         + stated_total(Tail(pk))

\* C15: in CloudVersion_Final the line price of a price point is unit price x
\* quarter count for the product named "Chicago Does Interactive Map" (count
\* 1 when zero or absent) and unit price x tier quantity for every other
\* product, and that is the price used throughout: the baseline comparison
\* (the Map pick is the dearest such line within the budget, every other pick
\* the cheapest), the baseline subtotal, the running subtotal, and the
\* current line and the candidates of the upgrade loop (when the loop ends
\* no dearer line of a picked product fits).
C15_LinePrice ==
    version = Final /\ AfterBaseline =>
        /\ baseline[1].subtotal = stated_total(baseline[1].picks)
        /\ subtotal = stated_total(picks)
        /\ \A n \in 1..Len(products) :
               LET pname == products[n].name
                   pts == eligible_points(version, products[n], meta, chosen_date,
                                          is_advertiser, interactive_map_quarters)
                   bp == baseline[1].picks
               IN  \A m \in 1..Len(pts) :
                       LET line == stated_line(pname, pts[m].lbl, pts[m].eff_base)
                           base == stated_line(pname, pick_of(bp, pname).lbl,
                                               pick_of(bp, pname).eff_base)
                           cur == stated_line(pname, pick_of(picks, pname).lbl,
                                              pick_of(picks, pname).eff_base)
                       IN  /\ pname = MapName /\ ~has_pick(bp, pname) => line > budget
                           /\ pname = MapName /\ has_pick(bp, pname) =>
                                  base <= budget /\ (line <= budget => line <= base)
                           /\ pname # MapName => has_pick(bp, pname) /\ base <= line
                           /\ /\ pc \in {"return", "done"}
                              /\ ~forced_overage
                              /\ has_pick(picks, pname)
                              /\ line > cur
                              => subtotal - cur + line > budget

C15_Witness ==
    /\ version = Final
    /\ pc = "done"
    /\ interactive_map_quarters = Some(3)
    /\ has_pick(picks, MapName)
    /\ has_pick(picks, BannerAdName)
    /\ pick_of(picks, MapName).eff_base = Dollars(500)
    /\ subtotal = Dollars(1600)

\* The pick carries a base price of its option, unchanged.
is_raw_point(pick) ==
    LET product == product_named(products, pick.pname)
    IN  \E o \in 1..Len(product.price_options) :
            LET opt == product.price_options[o]
            IN  /\ option_name(opt, pick.pname) = pick.opt_name
                /\ \E n \in 1..Len(opt.points) :
                       /\ opt.points[n][1] = pick.lbl
                       /\ opt.points[n][2] = pick.eff_base

\* C16: greedy_fill_to_cap never raises (pc is never "error"), also for a
\* product without a metadata entry, without a date, with a quarter count of
\* zero or None, for a product without options and for one without an
\* eligible price point: the baseline loop passes over such a product and
\* goes on to the next.  At the return a product without an eligible price
\* point is not among the picks, a product without a metadata entry is priced
\* at a base price, the Interactive Map with a quarter count of zero or None
\* costs its unit price, and forced_overage (subtotal > budget after the
\* baseline) is the only sign that the budget could not be met.
C16_FailSoft ==
    /\ pc \in {"baseline", "while", "for", "return", "done"}
    /\ pc = "baseline" =>
          /\ i \in 1..(Len(products) + 1)
          /\ \A n \in 1..(i - 1) :
                 has_pick(picks, products[n].name) <=>
                     baseline_best(version, products[n], meta, chosen_date,
                                   is_advertiser, interactive_map_quarters,
                                   budget) # <<>>
    /\ result # <<>> =>
          /\ \A n \in 1..Len(products) :
                 eligible_points(version, products[n], meta, chosen_date,
                                 is_advertiser, interactive_map_quarters) = <<>>
                     => ~has_pick(result[1].picks, products[n].name)
          /\ \A n \in 1..Len(result[1].picks) :
                 LET pick == result[1].picks[n]
                 IN  /\ pick.pname \notin DOMAIN meta => is_raw_point(pick)
                     /\ /\ version = Final
                        /\ pick.pname = MapName
                        /\ interactive_map_quarters \in {<<>>, Some(0)}
                        => pick_line(version, products, interactive_map_quarters,
                                     pick) = pick.eff_base
          /\ result[1].forced_overage = (baseline[1].subtotal > budget)

C16_Witness ==
    /\ pc = "done"
    /\ meta = <<>>
    /\ chosen_date = <<>>
    /\ ~is_advertiser
    /\ \E n \in 1..Len(products) : products[n].name = DirectoryName
    /\ ~has_pick(result[1].picks, DirectoryName)
    /\ ~has_pick(result[1].picks, NewsletterName)
    /\ has_pick(result[1].picks, ListingName)
    /\ ~result[1].forced_overage

\* A variant of one invocation: a natural number that every statement
\* lowers.  In the upgrade loop it is led by the room left under the budget,
\* which every applied upgrade lowers, then by the improved flag, then by
\* the position in the pass.
variant ==
    LET width == Len(products) + 2
        room == budget - subtotal
        loop == 2 * room + (IF improved THEN 1 ELSE 0)
        top == 2 + (2 * budget + 2) * width
    IN  CASE pc = "done" -> 0
          [] pc = "return" -> 1
          [] pc = "while" -> 2 + loop * width
          [] pc = "for" -> 2 + loop * width + (Len(items) + 2 - k)
          [] pc = "baseline" -> top + (Len(products) + 2 - i)

\* The picks differ at exactly one product.
one_pick_changed(before, after) ==
    /\ Len(before) = Len(after)
    /\ Cardinality({n \in 1..Len(before) : before[n] # after[n]}) = 1

\* What one statement of the invocation does to the variant and the picks.
C17_Step ==
    /\ variant >= 0
    /\ variant' < variant
    /\ variant' >= 0
    /\ pc = "for" /\ picks' # picks =>
          /\ one_pick_changed(picks, picks')
          /\ \A n \in 1..Len(picks) :
                 /\ picks'[n].pname = picks[n].pname
                 /\ picks'[n] # picks[n] =>
                        /\ pick_line(version, products, interactive_map_quarters,
                                     picks'[n])
                             > pick_line(version, products, interactive_map_quarters,
                                         picks[n])
                        /\ LET pts == eligible_points(
                                          version,
                                          product_named(products, picks[n].pname),
                                          meta, chosen_date, is_advertiser,
                                          interactive_map_quarters)
                           IN  \E m \in 1..Len(pts) : same_point(picks'[n], pts[m])
    /\ pc = "while" /\ pc' = "return" =>
          /\ picks = items
          /\ k = Len(items) + 1
          /\ ~improved

\* C17: the upgrade loop of greedy_fill_to_cap stops after finitely many
\* passes.  Every statement of an invocation lowers a variant that is a
\* natural number, so no invocation runs for ever; every applied upgrade
\* replaces the pick of one product by an eligible price point of that
\* product with a strictly greater line price; and the loop is left only
\* after a pass that visited every picked product and applied no upgrade.
C17_Terminates ==
    [][C17_Step]_vars

C17_Witness ==
    /\ pc = "return"
    /\ ~forced_overage
    /\ picks = items
    /\ Cardinality({n \in 1..Len(picks) : picks[n] # baseline[1].picks[n]}) = 2

\* The eligible price points of the product of a pick.
points_of(pick) ==
    eligible_points(version, product_named(products, pick.pname), meta,
                    chosen_date, is_advertiser, interactive_map_quarters)

\* C18: when greedy_fill_to_cap returns without forced overage, no single
\* upgrade still fits: for every returned pick and every eligible price
\* point of its product with a greater line price, the sum of the line prices
\* of the returned picks, less the line of that pick, plus the line of that
\* point, is above the budget.
C18_LocallyMaximal ==
    result # <<>> /\ ~result[1].forced_overage =>
        LET total == picks_total(version, products, interactive_map_quarters,
                                 result[1].picks)
        IN  \A n \in 1..Len(result[1].picks) :
                LET pick == result[1].picks[n]
                    cur == pick_line(version, products, interactive_map_quarters, pick)
                    pts == points_of(pick)
                IN  \A m \in 1..Len(pts) :
                        pts[m].line > cur => total - cur + pts[m].line > budget

C18_Witness ==
    /\ result # <<>>
    /\ ~result[1].forced_overage
    /\ Len(result[1].picks) = 2
    /\ result[1].picks # baseline[1].picks
    /\ \E n \in 1..2 : \E m \in 1..Len(points_of(result[1].picks[n])) :
           points_of(result[1].picks[n])[m].line
               > pick_line(version, products, interactive_map_quarters,
                           result[1].picks[n])

\* What one statement of the upgrade loop does when it changes a pick: the
\* pick of the product being visited moves to the cheapest eligible price
\* point among those dearer than the current line that fit the budget.
C19_Step ==
    pc = "for" /\ picks' # picks =>
        LET old == items[k]
            new == pick_of(picks', old.pname)
            cur_line == pick_line(version, products, interactive_map_quarters, old)
            new_line == pick_line(version, products, interactive_map_quarters, new)
            pts == points_of(old)
            fits(line) == line > cur_line /\ subtotal - cur_line + line <= budget
        IN  /\ pick_of(picks, old.pname) = old
            /\ new # old
            /\ \E m \in 1..Len(pts) :
                   same_point(new, pts[m]) /\ pts[m].line = new_line
            /\ fits(new_line)
            /\ \A m \in 1..Len(pts) : fits(pts[m].line) => new_line <= pts[m].line
            /\ subtotal' = subtotal - cur_line + new_line

\* C19: whenever the upgrade loop changes a product's pick, the new pick has
\* the smallest line price among that product's eligible price points whose
\* line price is strictly greater than the current line price and for which
\* subtotal - current_line + candidate_line <= budget: a dearer fitting
\* candidate is never chosen while a cheaper fitting one exists.
C19_CheapestUpgrade ==
    [][C19_Step]_vars

C19_Witness ==
    /\ pc = "for"
    /\ k > 1
    /\ picks[k - 1] # items[k - 1]
    /\ LET new == picks[k - 1]
           new_line == pick_line(version, products, interactive_map_quarters, new)
           pts == points_of(new)
       IN  \E m \in 1..Len(pts) :
               /\ pts[m].line > new_line
               /\ subtotal - new_line + pts[m].line <= budget

\* The names of the products with a pick, in the order of products.
RECURSIVE picked_in_order(_, _)
picked_in_order(prods, pk) ==
    IF prods = <<>> THEN <<>>
    ELSE (IF has_pick(pk, Head(prods).name) THEN <<Head(prods).name>> ELSE <<>>)
         \o picked_in_order(Tail(prods), pk)

\* What one statement of the upgrade loop does to the position in the pass
\* and to the picks.
C20_Step ==
    /\ pc = "for" =>
          /\ Len(items) = Len(picks)
          /\ [n \in 1..Len(items) |-> items[n].pname] = picked_in_order(products, picks)
          /\ \A n \in 1..Len(items) :
                 /\ picks[n].pname = items[n].pname
                 /\ n >= k => picks[n] = items[n]
    /\ pc = "for" /\ pc' = "for" =>
          /\ k' = k + 1
          /\ items' = items
          /\ \A n \in 1..Len(picks) : n # k => picks'[n] = picks[n]
    /\ pc = "for" /\ pc' # "for" => pc' = "while" /\ k = Len(items) + 1
    /\ pc = "while" /\ pc' = "for" => k' = 1 /\ items' = picks /\ picks' = picks

\* C20: within one pass of the upgrade loop the picked products are visited
\* once each, in the order of products: the position moves on by one at every
\* visit, upgraded or not, a visit changes the pick of the visited product
\* only, and the products not yet visited still have the pick they had when
\* the pass began.  The pass ends only after the last picked product, and only
\* then can a new pass begin, so a second upgrade of a product comes in a
\* later pass, after every other picked product has had its turn.
C20_OneUpgradePerPass ==
    [][C20_Step]_vars

C20_Witness ==
    /\ pc = "for"
    /\ Len(items) = 2
    /\ k = 3
    /\ picks[1] # items[1]
    /\ items[1] # baseline[1].picks[1]
    /\ items[2] # baseline[1].picks[2]

\* What one statement does to the line prices and the subtotal once the
\* baseline loop has ended.
C21_Step ==
    /\ pc \in {"while", "for"} =>
          /\ Len(picks') = Len(picks)
          /\ subtotal' >= subtotal
          /\ \A n \in 1..Len(picks) :
                 pick_line(version, products, interactive_map_quarters, picks'[n])
                     >= pick_line(version, products, interactive_map_quarters,
                                  picks[n])
          /\ picks' # picks =>
                 /\ subtotal' > subtotal
                 /\ \A n \in 1..Len(picks) :
                        picks'[n] # picks[n] =>
                            pick_line(version, products, interactive_map_quarters,
                                      picks'[n])
                                > pick_line(version, products,
                                            interactive_map_quarters, picks[n])
    /\ AfterBaseline' => subtotal' >= baseline'[1].subtotal
    /\ result' # <<>> => result'[1].subtotal >= Round2(baseline'[1].subtotal)

\* C21: upgrades only add value.  Every step of the upgrade loop that changes
\* a pick strictly raises the line price of the changed product and strictly
\* raises the subtotal; no step of the upgrade loop lowers a product's line
\* price or the subtotal; so the subtotal when the loop ends is at least the
\* baseline subtotal, and the returned subtotal at least the baseline
\* subtotal rounded the same way.
C21_UpgradesAddValue ==
    [][C21_Step]_vars

C21_Witness ==
    /\ pc = "done"
    /\ Len(picks) >= 2
    /\ result[1].subtotal > Round2(baseline[1].subtotal)
    /\ \E n \in 1..Len(picks) : picks[n] = baseline[1].picks[n]
    /\ \E n \in 1..Len(picks) : picks[n] # baseline[1].picks[n]

\* The string holds the phrase, letters compared without regard to case.
ContainsAnyCase(str, phrase) ==
    LET s == Spell[str]
        c == Spell[phrase]
        fold(x) == IF x \in DOMAIN LowerOf THEN LowerOf[x] ELSE x
    IN  \E n \in 1..(Len(s) - Len(c) + 1) :
            \A j \in 1..Len(c) : fold(s[n + j - 1]) = fold(c[j])

\* C22: for an advertiser _is_restricted_tier returns false whatever the
\* tier label: the labels that name an advertiser rate, a bundle, an add-on,
\* a package or a campaign included.
C22_AdvertiserUnrestricted ==
    restricted # <<>> /\ is_advertiser => restricted[1] = FALSE

C22_Witness ==
    /\ is_advertiser
    /\ restricted = Some(FALSE)
    /\ label = LblExistingAdvertiserRate

\* C23: for a non-advertiser _is_restricted_tier returns true for every
\* label that, letters compared without regard to case, contains
\* "advertiser" and contains neither "non-advertiser" nor "non advertiser".
C23_AdvertiserLabelRestricted ==
    /\ restricted # <<>>
    /\ ~is_advertiser
    /\ ContainsAnyCase(label, StrAdvertiser)
    /\ ~ContainsAnyCase(label, StrNonAdvertiserHyphen)
    /\ ~ContainsAnyCase(label, StrNonAdvertiserSpace)
    => restricted[1] = TRUE

C23_Witness ==
    /\ ~is_advertiser
    /\ restricted = Some(TRUE)
    /\ label = LblAdvertiserSpecial

\* The block-list read as eight separate phrases.
BlockPhrases ==
    { "with any campaign", "contract with multiple products", "with campaign",
      "existing advertiser", "advertiser rate", "bundle", "add-on",
      "package price" }

\* C24: for a non-advertiser, in CloudVersion and in CloudVersion_Final,
\* _is_restricted_tier returns true for every label that contains, in any
\* letter case, one of the eight phrases of the block-list.
C24_BlockList ==
    /\ restricted # <<>>
    /\ ~is_advertiser
    /\ \E phrase \in BlockPhrases : ContainsAnyCase(label, phrase)
    => restricted[1] = TRUE

\* C30: for a non-advertiser, a label with the qualifier "non-advertiser" (or
\* "non advertiser") and without a bundle, add-on, package or campaign
\* phrase, such as "Non-Advertiser Rate", is not restricted.
C30_NonAdvertiserRateOpen ==
    /\ restricted # <<>>
    /\ ~is_advertiser
    /\ \/ ContainsAnyCase(label, StrNonAdvertiserHyphen)
       \/ ContainsAnyCase(label, StrNonAdvertiserSpace)
    /\ \A phrase \in {"bundle", "add-on", "package", "campaign"} :
           ~ContainsAnyCase(label, phrase)
    => restricted[1] = FALSE

\* The product is of the Summit Booth family.
in_family(pname) ==
    ContainsAnyCase(pname, StrSummit) /\ ContainsAnyCase(pname, StrBooth)

\* The option name carries the "non" qualifier.
non_marked(opt_name) ==
    \/ ContainsAnyCase(opt_name, StrNonAdvertiserHyphen)
    \/ ContainsAnyCase(opt_name, StrNonAdvertiserSpace)

\* The option name says "advertiser" without the qualifier.
adv_marked(opt_name) ==
    ContainsAnyCase(opt_name, StrAdvertiser) /\ ~non_marked(opt_name)

\* Every price point of the option that passes the tier filter is among the
\* eligible points of the product.
option_open(product, opt) ==
    LET name == option_name(opt, product.name)
        pts == eligible_points(version, product, meta, chosen_date,
                               is_advertiser, interactive_map_quarters)
    IN  \A n \in 1..Len(opt.points) :
            ~is_restricted_tier(version, opt.points[n][1], is_advertiser) =>
                \E m \in 1..Len(pts) :
                    pts[m].opt_name = name /\ pts[m].lbl = opt.points[n][1]

\* C25: a product whose name contains "summit" and "booth" in any letter
\* case never has, in the baseline or after an upgrade, a pick from an
\* option named "non-advertiser" or "non advertiser" when is_advertiser is
\* true, nor a pick from an option named "advertiser" without that qualifier
\* when is_advertiser is false; its options with neither marker are open to
\* both, and every option of a product outside the family is open whatever
\* its name.
C25_SummitBoothFilter ==
    /\ \A n \in 1..Len(picks) :
           in_family(picks[n].pname) =>
               /\ is_advertiser => ~non_marked(picks[n].opt_name)
               /\ ~is_advertiser => ~adv_marked(picks[n].opt_name)
    /\ \A p \in 1..Len(products) :
           \A o \in 1..Len(products[p].price_options) :
               LET opt == products[p].price_options[o]
                   name == option_name(opt, products[p].name)
               IN  (\/ ~in_family(products[p].name)
                    \/ ~non_marked(name) /\ ~adv_marked(name))
                   => option_open(products[p], opt)

C25_Witness ==
    /\ pc = "done"
    /\ ~is_advertiser
    /\ has_pick(picks, SignageName)
    /\ pick_of(baseline[1].picks, SignageName).opt_name = OptAdvertiserBooth
    /\ has_pick(picks, SummitBoothName)
    /\ pick_of(picks, SummitBoothName).opt_name = OptCornerBooth
    /\ pick_of(baseline[1].picks, SummitBoothName).opt_name = OptNonAdvertiserBooth

\* C26: the tourist selection and the tourist overage flag of
\* run_fill_to_cap are the same in two invocations that agree on
\* total_budget, tourist_pct, the tourist product set and the shared inputs,
\* whatever industry_pct and the industry product set are; the same holds of
\* the industry pool; and a product set with its percentage gets the same
\* selection and flag whether it is allocated first or second.
C26_PoolsIndependent ==
    \A a, b \in 1..Len(runs) :
        /\ runs[a].tourist_pct = runs[b].tourist_pct /\ runs[a].t_set = runs[b].t_set
              => runs[a].t_sel = runs[b].t_sel /\ runs[a].t_warn = runs[b].t_warn
        /\ runs[a].industry_pct = runs[b].industry_pct /\ runs[a].i_set = runs[b].i_set
              => runs[a].i_sel = runs[b].i_sel /\ runs[a].i_warn = runs[b].i_warn
        /\ runs[a].tourist_pct = runs[b].industry_pct /\ runs[a].t_set = runs[b].i_set
              => runs[a].t_sel = runs[b].i_sel /\ runs[a].t_warn = runs[b].i_warn

C26_Witness ==
    /\ Len(runs) = 2
    /\ runs[1].t_set = runs[2].t_set
    /\ runs[1].tourist_pct = runs[2].tourist_pct
    /\ runs[1].i_set # runs[2].i_set
    /\ runs[1].industry_pct # runs[2].industry_pct
    /\ runs[1].i_sel # runs[2].i_sel
    /\ runs[1].i_warn # runs[2].i_warn
    /\ runs[1].t_sel.picks # <<>>
    /\ ~runs[1].t_warn

\* C27: for a product dictionary without "Chicago Does Interactive Map",
\* CloudVersion and CloudVersion_Final (with any quarter count), given the
\* same budget, metadata, date and advertiser flag, return the same picks,
\* the same subtotal and the same forced_overage.
C27_VersionsAgree ==
    Len(calls) = 2 =>
        /\ calls[1].picks = calls[2].picks
        /\ calls[1].subtotal = calls[2].subtotal
        /\ calls[1].forced_overage = calls[2].forced_overage

\* The product names of a sequence of picks, in order.
pick_names(pk) ==
    [n \in 1..Len(pk) |-> pk[n].pname]

\* C28: the products that have a pick are fixed when the baseline loop ends.
\* From then on the picks name the same products, in the same order, as
\* the baseline picks: the upgrade loop adds no pick (an Interactive Map
\* left out of the baseline because no tier fitted the budget stays out) and
\* removes none.  At every step no product has two picks, and the returned
\* picks name the products of the baseline.
C28_PickSetFixed ==
    /\ \A n, m \in 1..Len(picks) : picks[n].pname = picks[m].pname => n = m
    /\ AfterBaseline =>
          /\ pick_names(picks) = pick_names(baseline[1].picks)
          /\ \A p \in 1..Len(products) :
                 has_pick(picks, products[p].name)
                     <=> has_pick(baseline[1].picks, products[p].name)
    /\ result # <<>> =>
          pick_names(result[1].picks) = pick_names(baseline[1].picks)

C28_Witness ==
    /\ pc = "done"
    /\ version = Final
    /\ \E p \in 1..Len(products) : products[p].name = MapName
    /\ ~has_pick(result[1].picks, MapName)
    /\ has_pick(result[1].picks, BannerAdName)
    /\ pick_of(result[1].picks, BannerAdName) # pick_of(baseline[1].picks, BannerAdName)

\* C29: in CloudVersion_Final, with prices that are not negative, the upgrade
\* loop never changes the pick of "Chicago Does Interactive Map": the
\* baseline pick is the dearest eligible point within the budget, every
\* dearer point is above the budget, and the returned Map pick is the
\* baseline pick.
C29_MapNeverUpgraded ==
    version = Final /\ AfterBaseline /\ has_pick(baseline[1].picks, MapName) =>
        LET base == pick_of(baseline[1].picks, MapName)
            pts == points_of(base)
        IN  /\ pick_of(picks, MapName) = base
            /\ \A m \in 1..Len(pts) :
                   pts[m].line > pick_line(version, products,
                                           interactive_map_quarters, base)
                       => pts[m].line > budget
            /\ result # <<>> => pick_of(result[1].picks, MapName) = base

C29_Witness ==
    /\ pc = "done"
    /\ version = Final
    /\ ~forced_overage
    /\ has_pick(picks, MapName)
    /\ pick_of(picks, MapName).lbl = LblStandard
    /\ picks # baseline[1].picks
    /\ \E m \in 1..Len(points_of(pick_of(picks, MapName))) :
           points_of(pick_of(picks, MapName))[m].lbl = LblPremium

====
